---------------------------- MODULE Spec2Model ----------------------------
(***************************************************************************)
(* Model of deepl-keys-to-deeplx (src/main.go): the shared pool of alive   *)
(* DeepL keys and DeepLX urls (safeAliveKeysAndURLs), the refresh cycle    *)
(* (runCheck, parseKeysAndURLs, checkAlive), the eviction                  *)
(* (removeKeyOrURL) and the request handlers (handleForward,               *)
(* handleCheckAlive), with the goroutines of main interleaved at every     *)
(* access to shared memory.                                                *)
(*                                                                         *)
(* A Go string of apis.txt is a pair <<prefix, rest>>, so that             *)
(* strings.HasPrefix is a test on the first component.  A translated text  *)
(* is a sequence of code points.  A slice is a record [arr, len]: arr is   *)
(* the backing array, len the length of the slice header.                  *)
(***************************************************************************)
EXTENDS Integers, Sequences, FiniteSets, Bags, TLC

(***************************************************************************)
(* Bounds of the model.                                                    *)
(***************************************************************************)
MaxWork == 2       \* ticker firings, http requests and refresh cycles begun by a
                   \* request that are explored, in all
MaxFails == 2      \* the failed-attempt counter of a request saturates here
MaxProbes == 3     \* calls of checkAlive made one after the other
MaxLines == 3      \* lines of the apis.txt behind the pools that removeKeyOrURL
                   \* is called on twice in a row

(***************************************************************************)
(* Processes: the main goroutine (the startup runCheck, then the ticker    *)
(* goroutine), one handler goroutine of /check-alive, two of /.            *)
(***************************************************************************)
MainProc == "main"
CheckProc == "chk"
Disp == {"d1", "d2"}
Procs == {MainProc, CheckProc} \cup Disp

(***************************************************************************)
(* Lines of apis.txt.                                                      *)
(***************************************************************************)
Key == <<"", "key:fx">>
URL == <<"http", "://relay">>
Key2 == <<"", "key:two">>
HashComment == <<"#", " note">>
SlashComment == <<"//", " note">>

HasPrefix(text, prefix) == text[1] = prefix

\* what os.Open("apis.txt") and the scanner can deliver: a file that cannot be
\* opened, or the lines of the file
NoErr == "nil"
errNoFile == "open apis.txt: no such file or directory"
NoFile == [err |-> errNoFile, lines |-> << >>]
File(lines) == [err |-> NoErr, lines |-> lines]
Files ==
    { NoFile,
      File(<<HashComment, SlashComment>>),
      File(<<Key, URL>>),
      File(<<HashComment, Key, Key>>) }

(***************************************************************************)
(* Translated texts, as code points.                                       *)
(***************************************************************************)
TextNiHao == <<20320, 22909>>     \* "ni hao" in Han characters
TextHello == <<104, 101>>         \* latin letters
TextGoogle == <<22909>>           \* a Han text of the fallback service

\* containsChinese: regexp \p{Han} matches some character of the text
containsChinese(text) ==
    \E i \in 1..Len(text) : text[i] >= 19968 /\ text[i] <= 40959

(***************************************************************************)
(* Replies of the upstreams.  post returns (response, err).                *)
(***************************************************************************)
\* a deepLResp: isNil tells a nil Translations from an empty one
DeepLErr == [err |-> TRUE, isNil |-> TRUE, Translations |-> << >>, Message |-> ""]
DeepLQuota ==
    [err |-> FALSE, isNil |-> TRUE, Translations |-> << >>, Message |-> "Quota Exceeded"]
DeepLNone == [err |-> FALSE, isNil |-> FALSE, Translations |-> << >>, Message |-> ""]
DeepLText(t) == [err |-> FALSE, isNil |-> FALSE, Translations |-> <<t>>, Message |-> ""]

DeepLXErr == [err |-> TRUE, Code |-> 0, Data |-> << >>]
DeepLXCode(c) == [err |-> FALSE, Code |-> c, Data |-> << >>]
DeepLXText(t) == [err |-> FALSE, Code |-> 200, Data |-> t]

\* what deepLReq.post(key) can return
DeepLPost ==
    {DeepLErr, DeepLQuota, DeepLNone, DeepLText(TextNiHao), DeepLText(TextHello)}

\* what deepLXReq.post(u) can return
DeepLXPost ==
    {DeepLXErr, DeepLXCode(500), DeepLXText(TextNiHao), DeepLXText(TextHello)}

\* what the post of the test request of checkAlive can return
ProbeReplies(isKey) ==
    IF isKey
    THEN {DeepLErr, DeepLQuota, DeepLNone, DeepLText(TextNiHao)}
    ELSE {DeepLXErr, DeepLXCode(500), DeepLXText(TextNiHao)}

\* googleTranslate returns (text, err), or panics in the type assertions of
\* lines 354-355 when the body it decoded is not an array of arrays of arrays
GoogleErr == [err |-> TRUE, text |-> << >>, panics |-> FALSE]
GooglePanic == [err |-> TRUE, text |-> << >>, panics |-> TRUE]
GoogleText(t) == [err |-> FALSE, text |-> t, panics |-> FALSE]
GoogleReplies == {GoogleErr, GooglePanic, GoogleText(TextGoogle)}

(***************************************************************************)
(* Slices.                                                                 *)
(***************************************************************************)
NilSlice == [arr |-> << >>, len |-> 0]
Elems(s) == SubSeq(s.arr, 1, s.len)
ToSet(seq) == {seq[i] : i \in 1..Len(seq)}
ToBag(seq) == [x \in ToSet(seq) |-> Cardinality({i \in 1..Len(seq) : seq[i] = x})]

\* append(seq, x) on a local slice whose backing array holds nothing else
Append1(seq, x) == Append(seq, x)

VARIABLES
    keys,        \* saku.keys
    urls,        \* saku.urls
    mu,          \* saku.mu: "free", or held for ever by a goroutine that panicked
                 \* with the write lock ("wdead") or with a read lock ("rdead");
                 \* a critical section that ends is one step
    isChecking,  \* the package variable isChecking
    started,     \* main is past its first runCheck: the ticker and the server run
    pc,          \* where each goroutine is
    rc,          \* the locals of each goroutine's call of runCheck
    fw,          \* the locals of each call of the handleForward closure
    rm,          \* the locals of each call of removeKeyOrURL
    resp,        \* what each handler wrote to its http.ResponseWriter
    count,       \* ticker firings, http requests and their refresh cycles so far
    enableCheckContainsChinese,  \* the flag -c
    probed,      \* history: the calls of checkAlive made one after the other,
                 \* each with the reply to its test request and its verdict
    upstream,    \* how each key and url answers when every upstream answers
                 \* the same way at every call; nothing when they answer freely
    ca           \* the local of the handleCheckAlive closure: the argument
                 \* len(saku.keys) of line 549, once it is evaluated

vars == <<keys, urls, mu, isChecking, started, pc, rc, fw, rm, resp, count,
          enableCheckContainsChinese, probed, upstream, ca>>

(***************************************************************************)
(* Initial values of the locals.                                           *)
(***************************************************************************)
errIsChecking == "currently checking"
errEmpty == "apis.txt is empty"

RcInit ==
    [ file |-> File(<< >>), keys |-> << >>, urls |-> << >>,
      pendKeys |-> {}, pendURLs |-> {},
      okKeys |-> {}, okURLs |-> {},
      aliveKeys |-> << >>, aliveURLs |-> << >>,
      probes |-> 0, replaced |-> FALSE, err |-> NoErr ]

\* data is lxResp.Data.  posted, scene and fails are history: the request was
\* posted to an upstream since the label; the request, of a body that can be
\* decoded, began alone in the pool of
\* the scenario, no refresh replaced the pool and no other request began since,
\* and every reply since was one of the scenario; the failed attempts of such a
\* request
FwInit ==
    [ body |-> "none", forceUseDeepL |-> FALSE, use |-> 0, keyOrURL |-> << >>,
      data |-> << >>, posted |-> FALSE,
      scene |-> FALSE, fails |-> 0 ]

\* live and snap tell which backing array the range statement reads.  rets and
\* before are history: what the calls of one caller returned so far, and the
\* slice as it was when the first of them began
RmInit ==
    [ isKey |-> FALSE, keyOrURL |-> << >>, i |-> 0, n |-> 0,
      live |-> FALSE, snap |-> << >>, rets |-> << >>, before |-> << >> ]

CaInit == [keys |-> 0]

NoResp == [status |-> 0, msg |-> "", data |-> << >>]

Init ==
    /\ keys = NilSlice
    /\ urls = NilSlice
    /\ mu = "free"
    /\ isChecking = FALSE
    /\ started = FALSE
    /\ pc = [p \in Procs |-> IF p = MainProc THEN "rc_check" ELSE "idle"]
    /\ rc = [p \in Procs |-> RcInit]
    /\ fw = [p \in Disp |-> FwInit]
    /\ rm = [p \in Disp |-> RmInit]
    /\ resp = [p \in Procs |-> NoResp]
    /\ count = 0
    /\ enableCheckContainsChinese \in BOOLEAN
    /\ probed = << >>
    /\ upstream = << >>
    /\ ca = CaInit

(***************************************************************************)
(* parseKeysAndURLs: the keys and the urls of apis.txt, or an error.       *)
(***************************************************************************)
\* a variant that knows one kind of comment only
IsHashComment(text) == HasPrefix(text, "#")

IsComment(text) == HasPrefix(text, "#") \/ HasPrefix(text, "//")

RECURSIVE scanLines(_, _, _)
scanLines(lines, ks, us) ==
    IF lines = << >> THEN [keys |-> ks, urls |-> us]
    ELSE LET text == Head(lines) IN
         IF IsComment(text) THEN scanLines(Tail(lines), ks, us)
         ELSE IF HasPrefix(text, "http")
              THEN scanLines(Tail(lines), ks, Append(us, text))
              ELSE scanLines(Tail(lines), Append(ks, text), us)

parseKeysAndURLs(file) ==
    IF file.err # NoErr
    THEN [keys |-> << >>, urls |-> << >>, err |-> file.err]
    ELSE LET isEmpty == \A i \in 1..Len(file.lines) : IsComment(file.lines[i])
             got == scanLines(file.lines, << >>, << >>)
         IN  IF isEmpty
             THEN [keys |-> << >>, urls |-> << >>, err |-> errEmpty]
             ELSE [keys |-> got.keys, urls |-> got.urls, err |-> NoErr]

(***************************************************************************)
(* checkAlive: the verdict on the reply to the test request.               *)
(***************************************************************************)
checkAlive(isKey, reply) ==
    IF isKey
    THEN ~reply.err /\ ~reply.isNil
    ELSE ~reply.err /\ reply.Code = 200

(***************************************************************************)
(* The callers of runCheck: what each does with the error it returns.      *)
(***************************************************************************)
Failed(status, msg) == [status |-> status, msg |-> msg, data |-> << >>]
Translated(data) == [status |-> 200, msg |-> "", data |-> data]

\* lines 537-546: the response of handleCheckAlive to an error of runCheck
CheckAliveResp(err) ==
    IF err = errIsChecking
    THEN Failed(503, "currently rechecking, try again later")
    ELSE Failed(500, err)

\* lines 548-550: the response of handleCheckAlive after a refresh, with the
\* counts of the available keys and urls (the totals, which are the numbers of
\* lines of the file that was read, are left out)
CheckAliveCounts(nKeys, nURLs) ==
    [status |-> 200, msg |-> "counts", data |-> <<nKeys, nURLs>>]

\* a variant that answers as if the refresh had not failed
ForwardCheckOk(err) == Translated(<< >>)

\* lines 390-410: the response of handleForward to an error of runCheck
ForwardCheckResp(err) ==
    IF err = errIsChecking
    THEN Failed(500, "no available keys or urls, currently rechecking")
    ELSE Failed(500, err)

\* lines 564-568: a failed first runCheck ends the process; lines 576-583: the
\* ticker goroutine logs the error and loops; lines 537-546, and line 548
\* when there is no error; lines 390-410.
\* The locals of a handler that returns are gone.
Return(p, err, f) ==
    /\ rc' = [rc EXCEPT ![p] = [RcInit EXCEPT !.err = err]]
    /\ IF p = MainProc
       THEN /\ pc' = [pc EXCEPT ![p] =
                        IF ~started /\ err # NoErr THEN "exit" ELSE "ticker"]
            /\ started' = (started \/ err = NoErr)
            /\ resp' = resp
            /\ fw' = f
       ELSE IF p = CheckProc
       THEN /\ pc' = [pc EXCEPT ![p] = IF err # NoErr THEN "idle" ELSE "ca_keys"]
            /\ resp' = IF err # NoErr
                       THEN [resp EXCEPT ![p] = CheckAliveResp(err)]
                       ELSE resp
            /\ started' = started
            /\ fw' = f
       ELSE IF err # NoErr
       THEN /\ pc' = [pc EXCEPT ![p] = "idle"]
            /\ resp' = [resp EXCEPT ![p] = ForwardCheckResp(err)]
            /\ started' = started
            /\ fw' = [f EXCEPT ![p] = FwInit]
       ELSE /\ pc' = [pc EXCEPT ![p] = "rc_ret"]
            /\ resp' = resp
            /\ started' = started
            /\ fw' = f

(***************************************************************************)
(* runCheck.                                                               *)
(***************************************************************************)
\* line 253: the unsynchronized read of isChecking
Enter(p) ==
    IF isChecking
    THEN Return(p, errIsChecking, fw)
    ELSE /\ rc' = [rc EXCEPT ![p] = RcInit]
         /\ pc' = [pc EXCEPT ![p] = "rc_set"]
         /\ UNCHANGED <<started, resp, fw>>

\* runCheck called by main at line 564, or by handleForward at line 389
RcCheck(p) ==
    /\ pc[p] = "rc_check"
    /\ Enter(p)
    /\ UNCHANGED <<keys, urls, mu, isChecking, rm, count, enableCheckContainsChinese, probed, upstream, ca>>

\* lines 574-576: the ticker fires and runCheck is called
TickerFire ==
    /\ pc[MainProc] = "ticker"
    /\ count < MaxWork
    /\ count' = count + 1
    /\ Enter(MainProc)
    /\ UNCHANGED <<keys, urls, mu, isChecking, rm, enableCheckContainsChinese, probed, upstream, ca>>

\* lines 533-537: a request of /check-alive calls runCheck
CheckAliveBegin ==
    /\ started
    /\ pc[CheckProc] = "idle"
    /\ count < MaxWork
    /\ count' = count + 1
    /\ Enter(CheckProc)
    /\ UNCHANGED <<keys, urls, mu, isChecking, rm, enableCheckContainsChinese, probed, upstream, ca>>

\* lines 257-266: the write of isChecking, then the read of apis.txt
RcSet(p, file) ==
    /\ pc[p] = "rc_set"
    /\ p \in Disp => count < MaxWork
    /\ count' = IF p \in Disp THEN count + 1 ELSE count
    /\ isChecking' = TRUE
    /\ LET got == parseKeysAndURLs(file) IN
       IF got.err # NoErr
       THEN /\ rc' = [rc EXCEPT ![p].file = file, ![p].err = got.err]
            /\ pc' = [pc EXCEPT ![p] = "rc_defer"]
       ELSE /\ rc' = [rc EXCEPT ![p].file = file,
                                ![p].keys = got.keys, ![p].urls = got.urls,
                                ![p].pendKeys = 1..Len(got.keys),
                                ![p].pendURLs = 1..Len(got.urls)]
            /\ pc' = [pc EXCEPT ![p] = "rc_probe"]
    /\ UNCHANGED <<keys, urls, mu, started, fw, rm, resp, enableCheckContainsChinese, probed, upstream, ca>>

\* lines 272-285: one goroutine of the fan-out over the keys
RcProbeKey(p, i, reply) ==
    /\ pc[p] = "rc_probe"
    /\ i \in rc[p].pendKeys
    /\ LET isAlive == checkAlive(TRUE, reply) IN
       /\ isAlive => mu = "free"
       /\ rc' = [rc EXCEPT
                   ![p].pendKeys = @ \ {i},
                   ![p].probes = @ + 1,
                   ![p].okKeys = IF isAlive THEN @ \cup {i} ELSE @,
                   ![p].aliveKeys =
                       IF isAlive THEN Append1(@, rc[p].keys[i]) ELSE @]
    /\ UNCHANGED <<keys, urls, mu, isChecking, started, pc, fw, rm, resp, count, enableCheckContainsChinese, probed, upstream, ca>>

\* lines 290-303: one goroutine of the fan-out over the urls
RcProbeURL(p, i, reply) ==
    /\ pc[p] = "rc_probe"
    /\ i \in rc[p].pendURLs
    /\ LET isAlive == checkAlive(FALSE, reply) IN
       /\ isAlive => mu = "free"
       /\ rc' = [rc EXCEPT
                   ![p].pendURLs = @ \ {i},
                   ![p].probes = @ + 1,
                   ![p].okURLs = IF isAlive THEN @ \cup {i} ELSE @,
                   ![p].aliveURLs =
                       IF isAlive THEN Append1(@, rc[p].urls[i]) ELSE @]
    /\ UNCHANGED <<keys, urls, mu, isChecking, started, pc, fw, rm, resp, count, enableCheckContainsChinese, probed, upstream, ca>>

\* a removeKeyOrURL that is ranging over the backing array of the slice that is
\* replaced keeps ranging over that array, which nobody writes any more
Detach(r, q) ==
    IF pc[q] = "rm_range" /\ r.live
    THEN [r EXCEPT !.live = FALSE,
                   !.snap = IF r.isKey THEN keys.arr ELSE urls.arr]
    ELSE r

\* lines 306-310: wg.Wait, then both slices are replaced under the write lock
RcReplace(p) ==
    /\ pc[p] = "rc_probe"
    /\ rc[p].pendKeys = {} /\ rc[p].pendURLs = {}
    /\ mu = "free"
    /\ keys' = [arr |-> rc[p].aliveKeys, len |-> Len(rc[p].aliveKeys)]
    /\ urls' = [arr |-> rc[p].aliveURLs, len |-> Len(rc[p].aliveURLs)]
    /\ rm' = [q \in Disp |-> Detach(rm[q], q)]
    /\ fw' = [q \in Disp |-> [fw[q] EXCEPT !.scene = FALSE, !.fails = 0]]
    /\ rc' = [rc EXCEPT ![p] = [RcInit EXCEPT !.replaced = TRUE]]
    /\ pc' = [pc EXCEPT ![p] = "rc_defer"]
    /\ UNCHANGED <<mu, isChecking, started, resp, count, enableCheckContainsChinese, probed, upstream, ca>>

\* a variant that empties the pool when the cycle has failed
RcDeferClearing(p) ==
    /\ pc[p] = "rc_defer"
    /\ isChecking' = FALSE
    /\ Return(p, rc[p].err, fw)
    /\ keys' = IF rc[p].err # NoErr THEN NilSlice ELSE keys
    /\ urls' = IF rc[p].err # NoErr THEN NilSlice ELSE urls
    /\ UNCHANGED <<mu, rm, count, enableCheckContainsChinese, probed, upstream, ca>>

\* line 258: the deferred write of isChecking, on the return after line 257;
\* then the caller goes on
RcDefer(p) ==
    /\ pc[p] = "rc_defer"
    /\ isChecking' = FALSE
    /\ Return(p, rc[p].err, fw)
    /\ UNCHANGED <<keys, urls, mu, rm, count, enableCheckContainsChinese, probed, upstream, ca>>

Refresh ==
    \/ \E p \in Procs : RcCheck(p)
    \/ TickerFire
    \/ CheckAliveBegin
    \/ \E p \in Procs, file \in Files : RcSet(p, file)
    \/ \E p \in Procs, i \in 1..3, reply \in ProbeReplies(TRUE) : RcProbeKey(p, i, reply)
    \/ \E p \in Procs, i \in 1..3, reply \in ProbeReplies(FALSE) : RcProbeURL(p, i, reply)
    \/ \E p \in Procs : RcReplace(p)
    \/ \E p \in Procs : RcDefer(p)

(***************************************************************************)
(* removeKeyOrURL.                                                         *)
(***************************************************************************)
SliceOf(isKey) == IF isKey THEN keys ELSE urls

\* a variant that removes nothing
SwapKeep(s, i) == s

\* a variant that appends the element at i instead of dropping it
SwapAppend(s, i) ==
    [arr |-> Append(Elems(s), s.arr[i + 1]), len |-> s.len + 1]

\* (*slice)[i] = (*slice)[len(*slice)-1]; *slice = (*slice)[:len(*slice)-1]
\* with i counted from 0
SwapRemove(s, i) ==
    [arr |-> [s.arr EXCEPT ![i + 1] = s.arr[s.len]], len |-> s.len - 1]

\* a panic in a handler ends the request: net/http recovers it and closes the
\* connection, and no deferred call releases a lock of saku.mu
Panicked == [status |-> 0, msg |-> "panic", data |-> << >>]

\* the handler writes its response, or panics, and returns: its locals are gone
Respond(p, r) ==
    /\ resp' = [resp EXCEPT ![p] = r]
    /\ pc' = [pc EXCEPT ![p] = "idle"]
    /\ fw' = [fw EXCEPT ![p] = FwInit]
    /\ rm' = [rm EXCEPT ![p] = RmInit]

\* lines 140-148: the pointer is chosen under the read lock, then the range
\* statement reads the slice header, without the lock
RmStart(p) ==
    /\ pc[p] = "rm_start"
    /\ mu # "wdead"
    /\ rm' = [rm EXCEPT ![p].i = 0, ![p].n = SliceOf(rm[p].isKey).len,
                        ![p].live = TRUE, ![p].snap = << >>]
    /\ pc' = [pc EXCEPT ![p] = "rm_range"]
    /\ UNCHANGED <<keys, urls, mu, isChecking, started, rc, fw, resp, count,
                   enableCheckContainsChinese, probed, upstream, ca>>

\* lines 148-149 and 156-158: one iteration of the range, reading the element
\* of the backing array without the lock
RmRange(p) ==
    /\ pc[p] = "rm_range"
    /\ LET r == rm[p]
           v == IF r.live THEN SliceOf(r.isKey).arr[r.i + 1] ELSE r.snap[r.i + 1]
       IN  IF r.i >= r.n
           THEN /\ rm' = [rm EXCEPT ![p].rets = Append(@, FALSE),
                                    ![p].live = FALSE, ![p].snap = << >>]
                /\ pc' = [pc EXCEPT ![p] = "rm_ret"]
           ELSE IF v = r.keyOrURL
           THEN /\ rm' = [rm EXCEPT ![p].live = FALSE, ![p].snap = << >>]
                /\ pc' = [pc EXCEPT ![p] = "rm_lock"]
           ELSE /\ rm' = [rm EXCEPT ![p].i = @ + 1]
                /\ UNCHANGED pc
    /\ UNCHANGED <<keys, urls, mu, isChecking, started, rc, fw, resp, count,
                   enableCheckContainsChinese, probed, upstream, ca>>

\* lines 150-154: under the write lock the element at i is overwritten by the
\* last one and the slice is shortened; an index out of range panics, with the
\* lock held
RmLock(p) ==
    /\ pc[p] = "rm_lock"
    /\ mu = "free"
    /\ LET r == rm[p]
           s == SliceOf(r.isKey)
       IN  IF r.i >= s.len
           THEN /\ mu' = "wdead"
                /\ Respond(p, Panicked)
                /\ UNCHANGED <<keys, urls>>
           ELSE /\ IF r.isKey
                   THEN keys' = SwapRemove(s, r.i) /\ UNCHANGED urls
                   ELSE urls' = SwapRemove(s, r.i) /\ UNCHANGED keys
                /\ rm' = [rm EXCEPT ![p].rets = Append(@, TRUE)]
                /\ pc' = [pc EXCEPT ![p] = "rm_ret"]
                /\ UNCHANGED <<mu, resp, fw>>
    /\ UNCHANGED <<isChecking, started, rc, count, enableCheckContainsChinese, probed, upstream, ca>>

(***************************************************************************)
(* handleForward.                                                          *)
(***************************************************************************)
Bodies == {"json", "malformed", "unreadable"}

\* the pool of the scenario of one account that always translates and one
\* endpoint that always fails
ScenePool == Elems(keys) = <<Key>> /\ Elems(urls) = <<URL>>

\* no other request is being served
Alone(p) == \A q \in Disp \ {p} : pc[q] = "idle"

\* a reply of that scenario: the account translates, the endpoint fails
SceneReply(use, reply) ==
    IF use = 0 THEN reply = DeepLText(TextNiHao) ELSE reply = DeepLXErr

Bump(n) == IF n < MaxFails THEN n + 1 ELSE n

\* lines 370-379
ForwardBegin(p, body) ==
    /\ started
    /\ pc[p] = "idle"
    /\ p = "d2" => pc["d1"] # "idle"
    /\ count < MaxWork
    /\ count' = count + 1
    /\ IF body = "unreadable"
       THEN Respond(p, Failed(500, "read error"))
       ELSE /\ fw' = [q \in Disp |->
                        IF q = p
                        THEN [FwInit EXCEPT !.body = body, !.scene = (body = "json" /\ Alone(p) /\ ScenePool)]
                        ELSE [fw[q] EXCEPT !.scene = FALSE, !.fails = 0]]
            /\ resp' = [resp EXCEPT ![p] = NoResp]
            /\ pc' = [pc EXCEPT ![p] = "top"]
            /\ UNCHANGED rm
    /\ UNCHANGED <<keys, urls, mu, isChecking, started, rc,
                   enableCheckContainsChinese, probed, upstream, ca>>

\* lines 381-389 and 411-413: label reTranslate
ForwardTop(p) ==
    /\ pc[p] = "top"
    /\ mu # "wdead"
    /\ IF keys.len = 0 /\ urls.len = 0
       THEN pc' = [pc EXCEPT ![p] = "rc_check"]
       ELSE pc' = [pc EXCEPT ![p] = "family"]
    /\ UNCHANGED <<keys, urls, mu, isChecking, started, rc, fw, rm, resp, count,
                   enableCheckContainsChinese, probed, upstream, ca>>

\* lines 404-410: after a runCheck of line 389 that returned no error
ForwardAfterCheck(p) ==
    /\ pc[p] = "rc_ret"
    /\ mu # "wdead"
    /\ IF keys.len = 0 /\ urls.len = 0
       THEN Respond(p, Failed(500, "no available keys and urls"))
       ELSE /\ pc' = [pc EXCEPT ![p] = "family"]
            /\ UNCHANGED <<resp, fw, rm>>
    /\ UNCHANGED <<keys, urls, mu, isChecking, started, rc, count,
                   enableCheckContainsChinese, probed, upstream, ca>>

\* a variant that forgets forceUseDeepL
ChooseUseUnforced(force, r) ==
    IF keys.len > 0 /\ urls.len > 0 THEN r
    ELSE IF keys.len = 0 THEN 1
    ELSE 0

\* lines 415-427: use, with r the value of rand.IntN(2)
ChooseUse(force, r) ==
    IF force THEN 0
    ELSE IF keys.len > 0 /\ urls.len > 0 THEN r
    ELSE IF keys.len = 0 THEN 1
    ELSE 0

\* lines 415-440: the family is chosen, then the body is decoded
ForwardFamily(p, r) ==
    /\ pc[p] = "family"
    /\ ~fw[p].forceUseDeepL => mu # "wdead"
    /\ IF fw[p].body = "malformed"
       THEN Respond(p, Failed(400, "invalid request body"))
       ELSE /\ fw' = [fw EXCEPT ![p].use = ChooseUse(fw[p].forceUseDeepL, r)]
            /\ pc' = [pc EXCEPT ![p] = "select"]
            /\ UNCHANGED <<resp, rm>>
    /\ UNCHANGED <<keys, urls, mu, isChecking, started, rc, count,
                   enableCheckContainsChinese, probed, upstream, ca>>

\* a variant that reads the slice of the other family when it is long enough
SelectOther(use, idx) ==
    IF SliceOf(use # 0).len > idx
    THEN SliceOf(use # 0).arr[idx + 1]
    ELSE SliceOf(use = 0).arr[idx + 1]

\* the element that lines 444-445 or 476-477 read for the value idx of
\* rand.IntN(len), and the values rand.IntN(len) can take
SelectFrom(use, idx) == SliceOf(use = 0).arr[idx + 1]
SelectRange(use) == 0..(SliceOf(use = 0).len - 1)

\* what lines 453-468 do with the reply of a key
KeyVerdict(reply) ==
    IF reply.err THEN "remove"
    ELSE IF Len(reply.Translations) = 0 THEN "retranslate"
    ELSE "translated"

\* what lines 480-491 do with the reply of a url
URLVerdict(reply) ==
    IF reply.err \/ reply.Code # 200 THEN "remove" ELSE "translated"

\* the locals that the jump to reTranslate leaves behind: use, key, u, lxReq and
\* lxResp are declared anew after the label
Retranslate(f) ==
    [f EXCEPT !.use = 0, !.keyOrURL = << >>, !.data = << >>, !.posted = FALSE]

\* lines 442-491: the upstream is chosen under the read lock (rand.IntN(0)
\* panics, with the read lock held), and the request is posted to it; on a
\* failure the upstream is to be removed
ForwardSelect(p, idx, reply) ==
    /\ pc[p] = "select"
    /\ mu # "wdead"
    /\ IF SliceOf(fw[p].use = 0).len = 0
       THEN /\ idx = 0 /\ reply = DeepLErr
            /\ mu' = "rdead"
            /\ Respond(p, Panicked)
       ELSE /\ idx \in SelectRange(fw[p].use)
            /\ reply \in (IF fw[p].use = 0 THEN DeepLPost ELSE DeepLXPost)
            /\ LET f == [fw[p] EXCEPT
                           !.keyOrURL = SelectFrom(fw[p].use, idx),
                           !.posted = TRUE,
                           !.scene = @ /\ SceneReply(fw[p].use, reply)]
                   verdict == IF f.use = 0 THEN KeyVerdict(reply)
                                           ELSE URLVerdict(reply)
                   failed == [f EXCEPT !.fails = IF f.scene THEN Bump(@) ELSE @]
               IN  CASE verdict = "remove" ->
                          /\ fw' = [fw EXCEPT ![p] = failed]
                          /\ rm' = [rm EXCEPT ![p] =
                                      [RmInit EXCEPT !.isKey = (f.use = 0),
                                                     !.keyOrURL = f.keyOrURL]]
                          /\ pc' = [pc EXCEPT ![p] = "rm_start"]
                     [] verdict = "retranslate" ->
                          /\ fw' = [fw EXCEPT ![p] = Retranslate(failed)]
                          /\ pc' = [pc EXCEPT ![p] = "top"]
                          /\ UNCHANGED rm
                     [] verdict = "translated" ->
                          /\ fw' = [fw EXCEPT ![p] =
                                      [f EXCEPT !.data = IF f.use = 0
                                                         THEN reply.Translations[1]
                                                         ELSE reply.Data]]
                          /\ pc' = [pc EXCEPT ![p] = "verify"]
                          /\ UNCHANGED rm
            /\ UNCHANGED <<mu, resp>>
    /\ UNCHANGED <<keys, urls, isChecking, started, rc, count,
                   enableCheckContainsChinese, probed, upstream, ca>>

\* lines 493-528: the text is checked; the request is sent again to a key, or the
\* fallback is asked; the response is written
ForwardVerify(p, g) ==
    /\ pc[p] = "verify"
    /\ IF enableCheckContainsChinese /\ ~containsChinese(fw[p].data)
       THEN /\ mu # "wdead"
            /\ IF fw[p].use = 1 /\ keys.len > 0
               THEN /\ fw' = [fw EXCEPT ![p] =
                                [Retranslate(@) EXCEPT !.forceUseDeepL = TRUE]]
                    /\ pc' = [pc EXCEPT ![p] = "top"]
                    /\ UNCHANGED <<resp, rm>>
               ELSE Respond(p, IF g.panics THEN Panicked
                               ELSE Translated(IF g.err THEN fw[p].data ELSE g.text))
       ELSE /\ g = GoogleErr
            /\ Respond(p, Translated(fw[p].data))
    /\ UNCHANGED <<keys, urls, mu, isChecking, started, rc, count,
                   enableCheckContainsChinese, probed, upstream, ca>>

\* lines 455-462 and 482-489: whatever removeKeyOrURL returned, goto reTranslate
ForwardAfterRemove(p) ==
    /\ pc[p] = "rm_ret"
    /\ pc' = [pc EXCEPT ![p] = "top"]
    /\ fw' = [fw EXCEPT ![p] = Retranslate(@)]
    /\ rm' = [rm EXCEPT ![p] = RmInit]
    /\ UNCHANGED <<keys, urls, mu, isChecking, started, rc, resp, count,
                   enableCheckContainsChinese, probed, upstream, ca>>

Forward ==
    \/ \E p \in Disp, body \in Bodies : ForwardBegin(p, body)
    \/ \E p \in Disp : ForwardTop(p)
    \/ \E p \in Disp : ForwardAfterCheck(p)
    \/ \E p \in Disp, r \in 0..1 : ForwardFamily(p, r)
    \/ \E p \in Disp, idx \in 0..1, reply \in DeepLPost \cup DeepLXPost :
          ForwardSelect(p, idx, reply)
    \/ \E p \in Disp, g \in GoogleReplies : ForwardVerify(p, g)
    \/ \E p \in Disp : ForwardAfterRemove(p)
    \/ \E p \in Disp : RmStart(p)
    \/ \E p \in Disp : RmRange(p)
    \/ \E p \in Disp : RmLock(p)

(***************************************************************************)
(* handleCheckAlive after a refresh without error, lines 548-550: the      *)
(* arguments of the response are evaluated from left to right, and         *)
(* len(saku.keys) and len(saku.urls) are read without saku.mu.             *)
(***************************************************************************)
\* line 549: len(saku.keys)
CaKeys ==
    /\ pc[CheckProc] = "ca_keys"
    /\ ca' = [ca EXCEPT !.keys = keys.len]
    /\ pc' = [pc EXCEPT ![CheckProc] = "ca_urls"]
    /\ UNCHANGED <<keys, urls, mu, isChecking, started, rc, fw, rm, resp, count,
                   enableCheckContainsChinese, probed, upstream>>

\* line 550: len(saku.urls), then the response is written
CaURLs ==
    /\ pc[CheckProc] = "ca_urls"
    /\ resp' = [resp EXCEPT ![CheckProc] = CheckAliveCounts(ca.keys, urls.len)]
    /\ ca' = CaInit
    /\ pc' = [pc EXCEPT ![CheckProc] = "idle"]
    /\ UNCHANGED <<keys, urls, mu, isChecking, started, rc, fw, rm, count,
                   enableCheckContainsChinese, probed, upstream>>

CheckAlive == CaKeys \/ CaURLs

Next == Refresh \/ Forward \/ CheckAlive

Spec == Init /\ [][Next]_vars

(***************************************************************************)
(* removeKeyOrURL called twice in a row by one goroutine, nothing else     *)
(* running, on every pool that a refresh of an apis.txt of at most         *)
(* MaxLines lines leaves when every probe is alive.                        *)
(***************************************************************************)
Caller == "d1"
Tokens == {Key, Key2, URL}
ConfigLines == UNION {[1..k -> Tokens] : k \in 0..MaxLines}

\* lines 306-310 with every key and url of the file alive
PoolOf(lines) ==
    LET got == scanLines(lines, << >>, << >>)
    IN  [keys |-> [arr |-> got.keys, len |-> Len(got.keys)],
         urls |-> [arr |-> got.urls, len |-> Len(got.urls)]]

InitEvict ==
    /\ \E lines \in ConfigLines :
          /\ keys = PoolOf(lines).keys
          /\ urls = PoolOf(lines).urls
    /\ mu = "free"
    /\ isChecking = FALSE
    /\ started = FALSE
    /\ pc = [p \in Procs |-> IF p = Caller THEN "twice"
                             ELSE IF p = MainProc THEN "exit" ELSE "idle"]
    /\ rc = [p \in Procs |-> RcInit]
    /\ fw = [p \in Disp |-> FwInit]
    /\ rm = [p \in Disp |-> RmInit]
    /\ resp = [p \in Procs |-> NoResp]
    /\ count = 0
    /\ enableCheckContainsChinese = TRUE
    /\ probed = << >>
    /\ upstream = << >>
    /\ ca = CaInit

\* the first call: removeKeyOrURL(isKey, keyOrURL)
EvictFirst(isKey, keyOrURL) ==
    /\ pc[Caller] = "twice"
    /\ rm' = [rm EXCEPT ![Caller] =
                [RmInit EXCEPT !.isKey = isKey, !.keyOrURL = keyOrURL,
                               !.before = Elems(SliceOf(isKey))]]
    /\ pc' = [pc EXCEPT ![Caller] = "rm_start"]
    /\ UNCHANGED <<keys, urls, mu, isChecking, started, rc, fw, resp, count,
                   enableCheckContainsChinese, probed, upstream, ca>>

\* the first call has returned: the second call, with the same arguments
EvictSecond ==
    /\ pc[Caller] = "rm_ret"
    /\ Len(rm[Caller].rets) = 1
    /\ pc' = [pc EXCEPT ![Caller] = "rm_start"]
    /\ UNCHANGED <<keys, urls, mu, isChecking, started, rc, fw, rm, resp, count,
                   enableCheckContainsChinese, probed, upstream, ca>>

\* the second call has returned
EvictEnd ==
    /\ pc[Caller] = "rm_ret"
    /\ Len(rm[Caller].rets) = 2
    /\ rm' = [rm EXCEPT ![Caller] = RmInit]
    /\ pc' = [pc EXCEPT ![Caller] = "twice"]
    /\ UNCHANGED <<keys, urls, mu, isChecking, started, rc, fw, resp, count,
                   enableCheckContainsChinese, probed, upstream, ca>>

NextEvict ==
    \/ \E isKey \in BOOLEAN, keyOrURL \in Tokens : EvictFirst(isKey, keyOrURL)
    \/ RmStart(Caller)
    \/ RmRange(Caller)
    \/ RmLock(Caller)
    \/ EvictSecond
    \/ EvictEnd

SpecEvict == InitEvict /\ [][NextEvict]_vars

(***************************************************************************)
(* checkAlive called on its own, up to MaxProbes times, on every reply     *)
(* that the post of the test request can return.                           *)
(***************************************************************************)
InitProbe ==
    /\ keys = NilSlice
    /\ urls = NilSlice
    /\ mu = "free"
    /\ isChecking = FALSE
    /\ started = FALSE
    /\ pc = [p \in Procs |-> IF p = MainProc THEN "exit" ELSE "idle"]
    /\ rc = [p \in Procs |-> RcInit]
    /\ fw = [p \in Disp |-> FwInit]
    /\ rm = [p \in Disp |-> RmInit]
    /\ resp = [p \in Procs |-> NoResp]
    /\ count = 0
    /\ enableCheckContainsChinese = FALSE
    /\ probed = << >>
    /\ upstream = << >>
    /\ ca = CaInit

\* lines 201-247: one call, isAlive its first result
Probe(isKey, reply) ==
    /\ Len(probed) < MaxProbes
    /\ probed' = Append(probed, [isKey |-> isKey, reply |-> reply,
                                 isAlive |-> checkAlive(isKey, reply)])
    /\ UNCHANGED <<keys, urls, mu, isChecking, started, pc, rc, fw, rm, resp,
                   count, enableCheckContainsChinese, upstream, ca>>

NextProbe ==
    \/ \E reply \in ProbeReplies(TRUE) : Probe(TRUE, reply)
    \/ \E reply \in ProbeReplies(FALSE) : Probe(FALSE, reply)

SpecProbe == InitProbe /\ [][NextProbe]_vars

\* C11: checkAlive finds a key alive exactly when the call of the test request
\* returned no error and a response with at least one translation; an error,
\* a quota message, a response without translations and one with an empty
\* list of translations are all found dead.
C11_KeyAliveIffTranslation ==
    \A i \in 1..Len(probed) :
        probed[i].isKey =>
            ( probed[i].isAlive <=>
                (~probed[i].reply.err /\ Len(probed[i].reply.Translations) >= 1) )

(***************************************************************************)
(* One request served alone by upstreams that answer the same way at every *)
(* call.  The server has started with the key and the url of apis.txt both *)
(* alive (a state of Spec), no ticker fires and no other request arrives;  *)
(* the flag -c is not given.  Every step that can be taken is taken in the *)
(* end, and rand.IntN(2) does not return the same value for ever.  The     *)
(* behaviours are behaviours of the whole server in which the other        *)
(* goroutines take no step.                                                *)
(***************************************************************************)
KeyBehaviours == {"ok", "err", "zero"}
URLBehaviours == {"ok", "err", "code"}

\* what the post of a request to the key, or to the url, returns
LiveReply(isKey) ==
    IF isKey
    THEN CASE upstream.key = "ok" -> DeepLText(TextNiHao)
           [] upstream.key = "err" -> DeepLErr
           [] upstream.key = "zero" -> DeepLNone
    ELSE CASE upstream.url = "ok" -> DeepLXText(TextNiHao)
           [] upstream.url = "err" -> DeepLXErr
           [] upstream.url = "code" -> DeepLXCode(500)

InitLive ==
    /\ keys = [arr |-> <<Key>>, len |-> 1]
    /\ urls = [arr |-> <<URL>>, len |-> 1]
    /\ mu = "free"
    /\ isChecking = FALSE
    /\ started = TRUE
    /\ pc = [p \in Procs |-> IF p = MainProc THEN "ticker" ELSE "idle"]
    /\ rc = [p \in Procs |-> RcInit]
    /\ fw = [p \in Disp |-> FwInit]
    /\ rm = [p \in Disp |-> RmInit]
    /\ resp = [p \in Procs |-> NoResp]
    /\ count = 0
    /\ enableCheckContainsChinese = FALSE
    /\ probed = << >>
    /\ upstream \in [key : KeyBehaviours, url : URLBehaviours]
    /\ ca = CaInit

\* the request begins when the budget leaves room for the refresh it may run
LiveBegin(body) ==
    /\ count + 1 < MaxWork
    /\ ForwardBegin(Caller, body)

LiveSelect(reply) ==
    /\ SliceOf(fw[Caller].use = 0).len > 0 => reply = LiveReply(fw[Caller].use = 0)
    /\ ForwardSelect(Caller, 0, reply)

NextLive ==
    \/ \E body \in Bodies : LiveBegin(body)
    \/ ForwardTop(Caller)
    \/ RcCheck(Caller)
    \/ RcSet(Caller, File(<<Key, URL>>))
    \/ RcProbeKey(Caller, 1, LiveReply(TRUE))
    \/ RcProbeURL(Caller, 1, LiveReply(FALSE))
    \/ RcReplace(Caller)
    \/ RcDefer(Caller)
    \/ ForwardAfterCheck(Caller)
    \/ \E r \in 0..1 : ForwardFamily(Caller, r)
    \/ \E reply \in DeepLPost \cup DeepLXPost : LiveSelect(reply)
    \/ ForwardVerify(Caller, GoogleErr)
    \/ RmStart(Caller)
    \/ RmRange(Caller)
    \/ RmLock(Caller)
    \/ ForwardAfterRemove(Caller)

SpecLive ==
    /\ InitLive
    /\ [][NextLive]_vars
    /\ WF_vars(NextLive)
    /\ \A r \in 0..1 : SF_vars(ForwardFamily(Caller, r))

(***************************************************************************)
(* C17: every request gets a response: when every upstream call returns    *)
(* and each upstream answers the same way at every call, a request that is *)
(* being served is answered in the end.                                    *)
(***************************************************************************)
C17_DispatchResponds == \A p \in Disp : (pc[p] # "idle") ~> (pc[p] = "idle")

(***************************************************************************)
(* The refresh cycle.                                                      *)
(***************************************************************************)
\* the goroutines that are past line 253 of a runCheck that has not returned
PastCheck == {p \in Procs : pc[p] \in {"rc_set", "rc_probe", "rc_defer"}}

\* C1: at no reachable state are two refresh cycles past the check of the
\* in-progress flag at the same time: of two overlapping calls of runCheck one
\* returns errIsChecking.
C1_OneCyclePastCheck == Cardinality(PastCheck) <= 1

(***************************************************************************)
(* Eviction.                                                               *)
(***************************************************************************)
\* seq without its first element equal to x, as a bag
BagWithout(seq, x) ==
    LET b == ToBag(seq)
    IN  IF x \in DOMAIN b
        THEN [y \in {z \in DOMAIN b : z # x \/ b[z] > 1} |->
                IF y = x THEN b[y] - 1 ELSE b[y]]
        ELSE b

\* C8: two calls of removeKeyOrURL in a row, with the same arguments and
\* nothing in between, return true then false when the upstream was in the
\* slice and false then false when it was not, and after them the slice holds
\* what it held before but one occurrence of the upstream.
C8_EvictTwice ==
    LET r == rm[Caller]
        had == r.keyOrURL \in ToSet(r.before)
    IN  (pc[Caller] = "rm_ret" /\ Len(r.rets) = 2) =>
            /\ r.rets = <<had, FALSE>>
            /\ ToBag(Elems(SliceOf(r.isKey))) = BagWithout(r.before, r.keyOrURL)


(***************************************************************************)
(* The refresh cycle: what it leaves in the pool.                          *)
(***************************************************************************)
IsCommentLine(text) == text[1] = "#" \/ text[1] = "//"
IsKeyLine(text) == ~IsCommentLine(text) /\ text[1] # "http"
IsURLLine(text) == ~IsCommentLine(text) /\ text[1] = "http"

\* the elements of seq at the indices of ok, in order
RECURSIVE Pick(_, _)
Pick(seq, ok) ==
    IF seq = << >> THEN << >>
    ELSE LET rest == Pick(SubSeq(seq, 1, Len(seq) - 1), ok)
         IN  IF Len(seq) \in ok THEN Append(rest, seq[Len(seq)]) ELSE rest

\* C9: the replace of a refresh leaves in each alive slice exactly the lines of
\* its family, of the apis.txt that cycle read, whose probe in that cycle was
\* alive, after every line was probed; and a refresh fails on its
\* configuration exactly when apis.txt cannot be read or has no line that is
\* not a comment.
C9_RefreshResult ==
    [][\A p \in Procs :
         /\ (pc[p] = "rc_probe" /\ pc'[p] = "rc_defer") =>
               LET cfgKeys == SelectSeq(rc[p].file.lines, IsKeyLine)
                   cfgURLs == SelectSeq(rc[p].file.lines, IsURLLine)
               IN  /\ ToBag(Elems(keys')) = ToBag(Pick(cfgKeys, rc[p].okKeys))
                   /\ ToBag(Elems(urls')) = ToBag(Pick(cfgURLs, rc[p].okURLs))
                   /\ keys'.len = Len(keys'.arr) /\ urls'.len = Len(urls'.arr)
                   /\ rc[p].probes = Len(cfgKeys) + Len(cfgURLs)
         /\ (pc[p] = "rc_set" /\ pc'[p] # "rc_set") =>
               LET file == rc'[p].file
                   bare == \A i \in 1..Len(file.lines) : IsCommentLine(file.lines[i])
               IN  /\ (rc'[p].err # NoErr) <=> (file.err # NoErr \/ bare)
                   /\ rc'[p].err \in {NoErr, errNoFile, errEmpty}
      ]_vars

\* a refresh replaced the pool with one dead and one alive line
C9_Witness ==
    \E p \in Procs :
        /\ pc[p] = "rc_defer" /\ rc[p].replaced
        /\ Elems(keys) = <<Key>> /\ Elems(urls) = << >>

\* C10: a refresh that fails, on its configuration or because another one is
\* running, issues no probe and replaces nothing: the alive slices change
\* only at the replace of a cycle that has not failed, or at an eviction.
C10_FailedRefreshKeepsPool ==
    [][/\ \A p \in Procs :
            rc'[p].err # NoErr =>
                /\ rc'[p].probes = 0 /\ ~rc'[p].replaced
                /\ pc'[p] \notin {"rc_set", "rc_probe"}
       /\ (keys' # keys \/ urls' # urls) =>
            \/ \E p \in Procs :
                  /\ pc[p] = "rc_probe" /\ rc[p].err = NoErr
                  /\ rc'[p].replaced /\ rc'[p].err = NoErr
            \/ \E p \in Disp : pc[p] = "rm_lock" /\ pc'[p] = "rm_ret"
      ]_vars

\* /check-alive answered that apis.txt is empty, and the pool is still there
C10_Witness ==
    /\ resp[CheckProc] = Failed(500, errEmpty)
    /\ keys.len > 0

(***************************************************************************)
(* handleForward.                                                          *)
(***************************************************************************)
\* the step is the one on which the handler of p writes its response
Responds(p) == pc[p] # "idle" /\ pc'[p] = "idle"

C3_SelectsFromCurrentPool ==
    [][\A p \in Disp :
         (pc[p] = "select" /\ pc'[p] \in {"rm_start", "verify"}) =>
             fw'[p].keyOrURL \in ToSet(Elems(SliceOf(fw[p].use = 0)))
      ]_vars

\* a request has selected and posted while the other one is about to remove
C3_Witness ==
    \E p \in Disp, q \in Disp :
        /\ p # q
        /\ pc[p] = "verify" /\ fw[p].keyOrURL \in {Key, URL}
        /\ pc[q] = "rm_lock"

\* C4: an attempt on a key that yields no translation, by an error of the
\* call or by a response without translations, is followed by the removal of
\* that key.
C4_ZeroTranslationsEvict ==
    [][\A p \in Disp :
         (pc[p] = "select" /\ fw[p].use = 0 /\ pc'[p] \notin {"select", "idle", "verify"}) =>
             /\ pc'[p] = "rm_start"
             /\ rm'[p].isKey /\ rm'[p].keyOrURL \in ToSet(Elems(keys))
      ]_vars

\* C5: a request that finds both alive slices empty calls runCheck; when that
\* returns errIsChecking, or another error, or returns none with both slices
\* still empty, the request is answered 500 with the message of the case, and
\* it was posted to no upstream since the label.
C5_EmptyPoolOutcomes ==
    [][\A p \in Disp :
         /\ (pc[p] = "top" /\ keys.len = 0 /\ urls.len = 0 /\ pc'[p] # "top") =>
               pc'[p] = "rc_check"
         /\ (pc[p] \in {"rc_check", "rc_defer"} /\ pc'[p] # pc[p] /\ rc'[p].err # NoErr) =>
               Responds(p)
         /\ (pc[p] = "rc_ret" /\ keys.len = 0 /\ urls.len = 0 /\ pc'[p] # "rc_ret") =>
               Responds(p)
         /\ (pc[p] \in {"rc_check", "rc_defer", "rc_ret"} /\ Responds(p)) =>
               /\ ~fw[p].posted
               /\ resp'[p].status = 500
               /\ resp'[p].msg =
                     IF rc'[p].err = errIsChecking
                     THEN "no available keys or urls, currently rechecking"
                     ELSE IF rc'[p].err # NoErr THEN rc'[p].err
                     ELSE "no available keys and urls"
               /\ rc'[p].err = NoErr => keys.len = 0 /\ urls.len = 0
      ]_vars

\* the refresh of a request went through and left both slices empty
C5_Witness ==
    \E p \in Disp : resp[p] = Failed(500, "no available keys and urls")

\* C6: a request whose body cannot be decoded starts no refresh.
C6_MalformedStartsNoRefresh ==
    \A p \in Disp :
        fw[p].body = "malformed" =>
            pc[p] \notin {"rc_set", "rc_probe", "rc_defer", "rc_ret"}

\* C7: with the flag -c, a text of a url without a Han character sends the
\* request to reTranslate with forceUseDeepL when a key is alive, the attempt
\* after that is on a key, and a text with a Han character of that attempt is
\* the data of the response; the step that checks the text changes no alive
\* slice and leads to no removal, and a request with forceUseDeepL removes no
\* url.
C7_IncompleteTextEvictsNothing ==
    [][\A p \in Disp :
         /\ (pc[p] = "verify" /\ pc'[p] # "verify") =>
               /\ keys' = keys /\ urls' = urls
               /\ pc'[p] \in {"top", "idle"}
         /\ ( /\ pc[p] = "verify" /\ pc'[p] # "verify"
              /\ enableCheckContainsChinese
              /\ fw[p].use = 1 /\ ~containsChinese(fw[p].data)
              /\ keys.len > 0 ) =>
               pc'[p] = "top" /\ fw'[p].forceUseDeepL
         /\ (pc[p] = "family" /\ fw[p].forceUseDeepL /\ pc'[p] = "select") =>
               fw'[p].use = 0
         /\ ( /\ pc[p] = "verify" /\ pc'[p] # "verify"
              /\ fw[p].forceUseDeepL /\ containsChinese(fw[p].data) ) =>
               resp'[p] = Translated(fw[p].data)
         /\ (fw'[p].forceUseDeepL /\ pc'[p] = "rm_start") => rm'[p].isKey
      ]_vars

\* the attempt after the text without a Han character has the text of a key,
\* and the url is still alive
C7_Witness ==
    \E p \in Disp :
        /\ fw[p].forceUseDeepL /\ pc[p] = "verify"
        /\ fw[p].data = TextNiHao
        /\ URL \in ToSet(Elems(urls))

\* C12: the check of the text never fails the request: the response written
\* after it has status 200 and carries the text of the last upstream, or, with
\* the flag -c and a text without a Han character, the text of the fallback;
\* without the flag, or with a Han character in the text, it carries the text
\* of the upstream.
C12_FallbackNeverFails ==
    [][\A p \in Disp :
         (pc[p] = "verify" /\ Responds(p)) =>
             /\ resp'[p].status = 200
             /\ \/ resp'[p].data = fw[p].data
                \/ /\ enableCheckContainsChinese /\ ~containsChinese(fw[p].data)
                   /\ resp'[p].data = TextGoogle
      ]_vars

(***************************************************************************)
(* Eviction and selection among concurrent requests.                       *)
(***************************************************************************)
\* C13: the removal step of removeKeyOrURL, under every interleaving with
\* other removals and with the replace of a refresh, removes the element it
\* was called for at an index inside the current slice, and returns; it never
\* indexes outside the slice.
C13_EvictRemovesOnlyItsOwn ==
    [][\A p \in Disp :
         (pc[p] = "rm_lock" /\ pc'[p] # "rm_lock") =>
             /\ pc'[p] = "rm_ret"
             /\ rm[p].i < SliceOf(rm[p].isKey).len
             /\ SliceOf(rm[p].isKey).arr[rm[p].i + 1] = rm[p].keyOrURL
      ]_vars

\* C14: at the step that draws the index of the key or url, the alive slice of
\* the family is not empty, also with forceUseDeepL set and also when a
\* removal or a refresh came after the checks of the lengths.
C14_SelectsFromNonEmpty ==
    [][\A p \in Disp :
         (pc[p] = "select" /\ pc'[p] # "select") =>
             SliceOf(fw[p].use = 0).len > 0
      ]_vars

\* C15: a request jumps to reTranslate with forceUseDeepL at most once, and
\* forceUseDeepL holds for the one attempt after that jump: when that attempt
\* ends in a removal, the request comes back to the label with forceUseDeepL
\* false.
C15_ForceConsumedByOneAttempt ==
    [][\A p \in Disp :
         /\ (pc[p] = "verify" /\ pc'[p] = "top") => ~fw[p].forceUseDeepL
         /\ (pc[p] = "rm_ret" /\ pc'[p] = "top") => ~fw'[p].forceUseDeepL
      ]_vars

\* no element twice
NoDuplicate(seq) == \A i, j \in 1..Len(seq) : seq[i] = seq[j] => i = j

\* C16: in every reachable state no key or url is in both alive slices, and
\* none is twice in one.
C16_AtMostOnce ==
    /\ NoDuplicate(Elems(keys))
    /\ NoDuplicate(Elems(urls))
    /\ ToSet(Elems(keys)) \cap ToSet(Elems(urls)) = {}

\* the goroutines between the write of line 257 and the deferred write of
\* line 258
Executing == {p \in Procs : pc[p] \in {"rc_probe", "rc_defer"}}

\* C18: isChecking is true in every state where a refresh cycle is between its
\* write of line 257 and its return, and false in every state where no
\* goroutine is past the check of line 253.
C18_FlagFollowsCycle ==
    /\ Executing # {} => isChecking
    /\ PastCheck = {} => ~isChecking


(***************************************************************************)
(* C20: between two replacements by a refresh the pool only shrinks.  A    *)
(* step that is not the replace of a refresh (lines 308-310) leaves in     *)
(* each slice a part of what it held before, counted with multiplicity;    *)
(* the replace installs, in each slice, exactly the entries of apis.txt    *)
(* whose probe in that cycle returned alive, so a removed entry comes back *)
(* only through such a probe.                                              *)
(***************************************************************************)
Replaces(p) == pc[p] = "rc_probe" /\ pc'[p] = "rc_defer"

PartOf(new, old) ==
    new = old \/ ToBag(Elems(new)) \sqsubseteq ToBag(Elems(old))

C20_ShrinksBetweenRefreshes ==
    [][IF \E p \in Procs : Replaces(p)
       THEN \E p \in Procs :
              /\ Replaces(p)
              /\ ToBag(Elems(keys')) = ToBag(Pick(rc[p].keys, rc[p].okKeys))
              /\ ToBag(Elems(urls')) = ToBag(Pick(rc[p].urls, rc[p].okURLs))
       ELSE PartOf(keys', keys) /\ PartOf(urls', urls)]_vars

\* a request has removed the key it failed on, and the key slice is empty
C20_Witness ==
    \E p \in Disp :
        /\ pc[p] = "rm_ret" /\ rm[p].isKey
        /\ rm[p].rets = <<TRUE>>
        /\ keys.len = 0


(***************************************************************************)
(* C19: a refresh replaces the pool only when every probe of its fan-out   *)
(* has completed, and it overwrites both slices in one exclusive step, so  *)
(* that no reader sees the keys of one refresh together with the urls of   *)
(* another: a reader that has read the number of alive keys and has not    *)
(* yet read the number of alive urls reports, over a replace, a pair of    *)
(* counts that the pool held before the replace or holds after it.         *)
(***************************************************************************)
C19_ReplaceAfterProbesAtomic ==
    [][\A p \in Procs :
         Replaces(p) =>
            /\ rc[p].pendKeys = {} /\ rc[p].pendURLs = {}
            /\ rc[p].probes = Len(rc[p].keys) + Len(rc[p].urls)
            /\ pc[CheckProc] = "ca_urls" =>
                  <<ca.keys, urls'.len>> \in
                      {<<keys.len, urls.len>>, <<keys'.len, urls'.len>>} ]_vars

=============================================================================
